---- MODULE Spec2Model ----
(***************************************************************************)
(* Model of the mbox message-boundary scanner, MboxParserStream, a Node    *)
(* Transform stream: each written chunk is handed to _transform, which    *)
(* pushes the absolute offsets of the message boundaries found so far.     *)
(* Bytes are their ASCII codes; buffers are sequences of bytes.  Buffer    *)
(* positions are 0-based as in the source.                                 *)
(* The second part models the Mbox class, which builds the message index   *)
(* from the pushed boundaries or from a saved index and serves get,        *)
(* delete, reset, write and exportIndex on it.                             *)
(***************************************************************************)
EXTENDS Integers, Sequences, FiniteSets, TLC

VARIABLES content, parser, fed, lastCut, reuse, mbox, call, writer

vars == <<content, parser, fed, lastCut, reuse, mbox, call, writer>>

(* ---------------------------------------------------------------------- *)
(* Bounds of the model                                                     *)
(* ---------------------------------------------------------------------- *)

\* largest number of fragments concatenated into a generated stream
MaxFrags == 3

\* the same bound for the runs in which a parser is reset and fed again
MaxFragsReset == 2

(* ---------------------------------------------------------------------- *)
(* Buffer helpers (Node's Buffer API)                                      *)
(* ---------------------------------------------------------------------- *)

Min(a, b) == IF a < b THEN a ELSE b

\* buffer.slice(start, end): bytes start .. end-1, end clamped to the length
slice(buffer, start, end) == SubSeq(buffer, start + 1, Min(end, Len(buffer)))

\* buffer.indexOf(value, byteOffset): first position >= byteOffset, or -1
RECURSIVE indexOf(_, _, _)
indexOf(buffer, value, byteOffset) ==
    IF byteOffset + Len(value) > Len(buffer) THEN -1
    ELSE IF SubSeq(buffer, byteOffset + 1, byteOffset + Len(value)) = value
         THEN byteOffset
         ELSE indexOf(buffer, value, byteOffset + 1)

(* ---------------------------------------------------------------------- *)
(* MboxParserStream                                                        *)
(* ---------------------------------------------------------------------- *)

\* '\nFrom '
DELIMITER == <<10, 70, 114, 111, 109, 32>>

\* 'From '
DELIMITER_START == <<70, 114, 111, 109, 32>>

MboxValidationError == "MboxValidationError"

\* the errors of Node's Writable.write on a stream that has ended or failed
ERR_STREAM_WRITE_AFTER_END == "ERR_STREAM_WRITE_AFTER_END"

ERR_STREAM_DESTROYED == "ERR_STREAM_DESTROYED"

\* the two parser instances of the model
Instances == {1, 2}

\* field initialisers and constructor; pushed, errors, destroyed and ended
\* are the state of the underlying Transform stream; lastWrite is the outcome
\* of the last write()
NewParser(strict) ==
    [absoluteOffset |-> 0,
     tail           |-> <<>>,
     isFirstChunk   |-> TRUE,
     strict         |-> strict,
     pushed         |-> <<>>,
     errors         |-> <<>>,
     destroyed      |-> FALSE,
     ended          |-> FALSE,
     lastWrite      |-> "none"]

startsWithFromLineDelimiter(buffer) ==
    IF Len(buffer) < Len(DELIMITER_START) THEN FALSE
    ELSE slice(buffer, 0, Len(DELIMITER)) = DELIMITER

\* startsWithFromLine(buffer): the buffer starts with 'From '
startsWithFromLine(buffer) ==
    IF Len(buffer) < Len(DELIMITER_START) THEN FALSE
    ELSE slice(buffer, 0, Len(DELIMITER_START)) = DELIMITER_START

\* searchBuffer.length >= DELIMITER_START.length
EnoughBytes(searchBuffer) == Len(searchBuffer) >= Len(DELIMITER_START)

canStillMatchNonEmpty(searchBuffer) ==
    /\ Len(searchBuffer) > 0
    /\ slice(DELIMITER_START, 0, Len(searchBuffer)) = searchBuffer

\* DELIMITER_START.slice(0, searchBuffer.length).equals(searchBuffer)
canStillMatch(searchBuffer) ==
    slice(DELIMITER_START, 0, Len(searchBuffer)) = searchBuffer

FirstChunkMismatchWhenEnough(searchBuffer) ==
    IF EnoughBytes(searchBuffer)
    THEN ~startsWithFromLine(searchBuffer)
    ELSE FALSE

\* the first-chunk block decides that the stream does not start with 'From '
FirstChunkMismatch(searchBuffer) ==
    IF EnoughBytes(searchBuffer)
    THEN ~startsWithFromLine(searchBuffer)
    ELSE ~canStillMatch(searchBuffer)

StillFirstChunkWhileShort(p, searchBuffer) ==
    /\ p.isFirstChunk
    /\ ~EnoughBytes(searchBuffer)

\* value of isFirstChunk after the first-chunk block
StillFirstChunk(p, searchBuffer) ==
    /\ p.isFirstChunk
    /\ ~EnoughBytes(searchBuffer)
    /\ canStillMatch(searchBuffer)

\* the boundary pushed by the first-chunk block
FirstChunkPush(p, searchBuffer) ==
    IF p.isFirstChunk /\ EnoughBytes(searchBuffer)
                      /\ startsWithFromLine(searchBuffer)
    THEN <<0>>
    ELSE <<>>

StrictFailsAlways(p, searchBuffer) ==
    p.isFirstChunk /\ FirstChunkMismatch(searchBuffer)

\* the first-chunk block calls callback(new MboxValidationError(..))
StrictFails(p, searchBuffer) ==
    p.isFirstChunk /\ FirstChunkMismatch(searchBuffer) /\ p.strict

FilePositionAtNewline(absoluteOffset, matchIndex, tailLength) ==
    absoluteOffset + (matchIndex - tailLength)

FilePositionInBuffer(absoluteOffset, matchIndex, tailLength) ==
    absoluteOffset + matchIndex + 1

\* offsetInChunk = matchIndex - tailLength; +1 to skip '\n'
FilePosition(absoluteOffset, matchIndex, tailLength) ==
    absoluteOffset + (matchIndex - tailLength) + 1

\* searchIndex = matchIndex + 1
NextSearchIndex(matchIndex) == matchIndex + 1

RECURSIVE ScanLoopFindingFrom(_, _, _, _)
ScanLoopFindingFrom(searchBuffer, searchIndex, tailLength, absoluteOffset) ==
    LET matchIndex == indexOf(searchBuffer, DELIMITER_START, searchIndex)
    IN  IF matchIndex = -1 THEN <<>>
        ELSE <<FilePosition(absoluteOffset, matchIndex, tailLength)>>
             \o ScanLoopFindingFrom(searchBuffer, NextSearchIndex(matchIndex),
                                    tailLength, absoluteOffset)

\* the while (true) loop: the file positions pushed, in order
RECURSIVE ScanLoop(_, _, _, _)
ScanLoop(searchBuffer, searchIndex, tailLength, absoluteOffset) ==
    LET matchIndex == indexOf(searchBuffer, DELIMITER, searchIndex)
    IN  IF matchIndex = -1 THEN <<>>
        ELSE <<FilePosition(absoluteOffset, matchIndex, tailLength)>>
             \o ScanLoop(searchBuffer, NextSearchIndex(matchIndex),
                         tailLength, absoluteOffset)

PendingTailEmpty(searchBuffer) == <<>>

\* tail kept while the first-chunk decision is pending
PendingTail(searchBuffer) == slice(searchBuffer, 0, Len(DELIMITER_START))

NormalTailShort(searchBuffer) ==
    LET tailSize == Min(Len(DELIMITER) - 2, Len(searchBuffer))
    IN  slice(searchBuffer, Len(searchBuffer) - tailSize, Len(searchBuffer))

NormalTailLong(searchBuffer) ==
    LET tailSize == Min(Len(DELIMITER), Len(searchBuffer))
    IN  slice(searchBuffer, Len(searchBuffer) - tailSize, Len(searchBuffer))

NormalTailHead(searchBuffer) ==
    LET tailSize == Min(Len(DELIMITER) - 1, Len(searchBuffer))
    IN  slice(searchBuffer, 0, tailSize)

\* tail kept in normal operation: the last DELIMITER.length - 1 bytes
NormalTail(searchBuffer) ==
    LET tailSize == Min(Len(DELIMITER) - 1, Len(searchBuffer))
    IN  slice(searchBuffer, Len(searchBuffer) - tailSize, Len(searchBuffer))

AdvanceOffsetByBuffer(absoluteOffset, chunk, searchBuffer) ==
    absoluteOffset + Len(searchBuffer)

AdvanceOffsetToChunk(absoluteOffset, chunk, searchBuffer) ==
    Len(chunk)

\* this.absoluteOffset += chunk.length
AdvanceOffset(absoluteOffset, chunk, searchBuffer) ==
    absoluteOffset + Len(chunk)

\* the rest of _transform after the first-chunk block: scan, tail, offset
ScanAndCarry(p, chunk, searchBuffer, pending) ==
    [p EXCEPT
       !.isFirstChunk   = pending,
       !.pushed         = p.pushed \o FirstChunkPush(p, searchBuffer)
                            \o ScanLoop(searchBuffer, 0, Len(p.tail),
                                        p.absoluteOffset),
       !.tail           = IF pending THEN PendingTail(searchBuffer)
                          ELSE NormalTail(searchBuffer),
       !.absoluteOffset = AdvanceOffset(p.absoluteOffset, chunk, searchBuffer)]

ErrorWithoutReturn(p, chunk, searchBuffer) ==
    [ScanAndCarry(p, chunk, searchBuffer, FALSE) EXCEPT
       !.errors    = p.errors \o <<MboxValidationError>>,
       !.destroyed = TRUE]

\* callback(new MboxValidationError(..)); return;  the stream is destroyed
ErrorReturn(p, chunk, searchBuffer) ==
    [p EXCEPT
       !.isFirstChunk = FALSE,
       !.errors       = p.errors \o <<MboxValidationError>>,
       !.destroyed    = TRUE]

\* _transform(chunk, _encoding, callback)
Transform(p, chunk) ==
    LET searchBuffer == p.tail \o chunk
    IN  IF StrictFails(p, searchBuffer)
        THEN ErrorReturn(p, chunk, searchBuffer)
        ELSE ScanAndCarry(p, chunk, searchBuffer,
                          StillFirstChunk(p, searchBuffer))

FlushMatchingTail(p) ==
    [p EXCEPT
       !.ended  = TRUE,
       !.pushed = IF p.tail = slice(DELIMITER, 0, Len(DELIMITER) - 1)
                  THEN p.pushed \o <<p.absoluteOffset - Len(DELIMITER_START) + 1>>
                  ELSE p.pushed]

\* _flush(callback): no final processing
Flush(p) == [p EXCEPT !.ended = TRUE]

resetKeepingTail(p) ==
    [p EXCEPT !.absoluteOffset = 0, !.isFirstChunk = TRUE]

\* reset(): the three fields, nothing of the Transform stream's own state
reset(p) ==
    [p EXCEPT !.absoluteOffset = 0, !.tail = <<>>, !.isFirstChunk = TRUE]

WriteChunkIgnoringEnd(p, chunk) ==
    IF p.destroyed /\ ~p.ended
    THEN [p EXCEPT !.lastWrite = ERR_STREAM_DESTROYED]
    ELSE LET q == Transform(p, chunk)
         IN  [q EXCEPT !.lastWrite = IF Len(q.errors) > Len(p.errors)
                                     THEN MboxValidationError ELSE "ok"]

\* write(chunk) of the Transform base class: an ended stream fails with
\* write-after-end, a destroyed one with stream-destroyed, and neither calls
\* _transform; a live stream calls _transform
WriteChunk(p, chunk) ==
    IF p.ended THEN [p EXCEPT !.lastWrite = ERR_STREAM_WRITE_AFTER_END]
    ELSE IF p.destroyed THEN [p EXCEPT !.lastWrite = ERR_STREAM_DESTROYED]
    ELSE LET q == Transform(p, chunk)
         IN  [q EXCEPT !.lastWrite = IF Len(q.errors) > Len(p.errors)
                                     THEN MboxValidationError ELSE "ok"]

(* ---------------------------------------------------------------------- *)
(* Streams fed to the parser                                               *)
(* ---------------------------------------------------------------------- *)

\* '\n', 'From ', 'Fro', 'm', '>'
Fragments ==
    { <<10>>, <<70, 114, 111, 109, 32>>, <<70, 114, 111>>, <<109>>, <<62>> }

RECURSIVE FragmentStreams(_)
FragmentStreams(n) ==
    IF n = 0 THEN { <<>> }
    ELSE LET shorter == FragmentStreams(n - 1)
         IN  shorter \cup { c \o f : c \in shorter, f \in Fragments }

\* 'From a@x Mon Jan 1\nSubj: 1\n\nBody 1\nFrom b@x Mon Jan 2\nSubj: 2\n'
ExampleTwoMessages ==
    <<70, 114, 111, 109, 32, 97, 64, 120, 32, 77, 111, 110, 32, 74, 97, 110,
      32, 49, 10, 83, 117, 98, 106, 58, 32, 49, 10, 10, 66, 111, 100, 121,
      32, 49, 10, 70, 114, 111, 109, 32, 98, 64, 120, 32, 77, 111, 110, 32,
      74, 97, 110, 32, 50, 10, 83, 117, 98, 106, 58, 32, 50, 10>>

\* 'Not an mbox\nFrom someone\n'
ExampleNotAnMbox ==
    <<78, 111, 116, 32, 97, 110, 32, 109, 98, 111, 120, 10, 70, 114, 111,
      109, 32, 115, 111, 109, 101, 111, 110, 101, 10>>

\* 'From a\n>From someone\nx From y\n'
ExampleEscaped ==
    <<70, 114, 111, 109, 32, 97, 10, 62, 70, 114, 111, 109, 32, 115, 111,
      109, 101, 111, 110, 101, 10, 120, 32, 70, 114, 111, 109, 32, 121, 10>>

Examples == { ExampleTwoMessages, ExampleNotAnMbox, ExampleEscaped }

\* message bodies: '', '>From ', 'x\nFrom'
Bodies ==
    { <<>>, <<62, 70, 114, 111, 109, 32>>, <<120, 10, 70, 114, 111, 109>> }

\* streams m1 + m2 + m3 of three messages, the first two ending in '\n'
ThreeMessageStreams ==
    { (DELIMITER_START \o b1 \o <<10>>) \o (DELIMITER_START \o b2 \o <<10>>)
        \o (DELIMITER_START \o b3 \o e3) :
        b1 \in Bodies, b2 \in Bodies, b3 \in Bodies, e3 \in { <<>>, <<10>> } }

Inputs == FragmentStreams(MaxFrags) \cup Examples \cup ThreeMessageStreams

InputsPair == FragmentStreams(MaxFrags) \cup { ExampleNotAnMbox }

InputsReset == FragmentStreams(MaxFragsReset) \cup { ExampleNotAnMbox }

(* ---------------------------------------------------------------------- *)
(* Mbox: message records and the index built from the boundaries           *)
(* ---------------------------------------------------------------------- *)

\* A is created on the file without a saved index; B is created later on
\* the same file with the index exported by A
MboxIds == { "A", "B" }

MboxNotReadyError == "MboxNotReadyError"

MessageNotFoundError == "MessageNotFoundError"

\* the path handed to write()
Destination == "destination"

\* the failure of fs.promises.access
AccessError == "ENOENT"

\* new MboxMessage(index, offset, size, deleted)
MboxMessage(index, offset, size, deleted) ==
    [index |-> index, offset |-> offset, size |-> size, deleted |-> deleted]

\* the constructor throws on a negative index, offset or size
InvalidMessage(index, offset, size) == index < 0 \/ offset < 0 \/ size < 0

markDeleted(msg) == [msg EXCEPT !.deleted = TRUE]

withSize(msg, size) == MboxMessage(msg.index, msg.offset, size, msg.deleted)

toJSONWithoutDeleted(msg) ==
    [index |-> msg.index, offset |-> msg.offset, size |-> msg.size,
     deleted |-> FALSE]

toJSON(msg) ==
    [index |-> msg.index, offset |-> msg.offset, size |-> msg.size,
     deleted |-> msg.deleted]

fromJSON(json) == MboxMessage(json.index, json.offset, json.size, json.deleted)

\* messages.map((msg) => new MboxMessage(msg.index, msg.offset, msg.size,
\* msg.deleted))
copyMessages(messages) ==
    [i \in 1..Len(messages) |->
        MboxMessage(messages[i].index, messages[i].offset, messages[i].size,
                    messages[i].deleted)]

\* the instance before its constructor has run
NotCreated ==
    [state |-> "INIT", pc |-> "new", messages |-> <<>>,
     originalMessages |-> <<>>, hasSavedIndex |-> FALSE, savedIndex |-> <<>>,
     ready |-> "pending", init |-> <<>>, initError |-> "none"]

\* the instance when its constructor returns: initialize() has set INDEXING
\* and waits for fs.promises.access
NewMbox(hasSavedIndex, savedIndex) ==
    [NotCreated EXCEPT !.state = "INDEXING", !.pc = "access",
                       !.hasSavedIndex = hasSavedIndex,
                       !.savedIndex = savedIndex]

\* no call of get, delete, reset, write or exportIndex has been made
NoCall ==
    [id |-> "A", op |-> "none", args |-> <<>>, error |-> "none",
     reason |-> "none", events |-> <<>>, result |-> <<>>]

onDataAbsoluteSize(messages, offset) ==
    LET n == Len(messages)
        closed == IF n > 0
                  THEN [messages EXCEPT ![n] = withSize(messages[n], offset)]
                  ELSE messages
    IN  Append(closed, MboxMessage(n, offset, 0, FALSE))

\* parser.on('data'): the boundary closes the previous message and starts
\* a new one of size 0
onData(messages, offset) ==
    LET n == Len(messages)
        closed == IF n > 0
                  THEN [messages EXCEPT
                          ![n] = withSize(messages[n],
                                          offset - messages[n].offset)]
                  ELSE messages
    IN  Append(closed, MboxMessage(n, offset, 0, FALSE))

\* the 'data' events of the boundaries one _transform call pushed, in order
RECURSIVE onBoundaries(_, _)
onBoundaries(messages, offsets) ==
    IF offsets = <<>> THEN messages
    ELSE onBoundaries(onData(messages, Head(offsets)), Tail(offsets))

\* parser.on('end'): the last message runs to the end of the file
onEnd(messages, fileSize) ==
    LET n == Len(messages)
    IN  IF n > 0
        THEN [messages EXCEPT
                ![n] = withSize(messages[n], fileSize - messages[n].offset)]
        ELSE messages

\* initialize() with options.savedIndex
loadSavedIndex(m) ==
    LET loaded == [i \in 1..Len(m.savedIndex) |-> fromJSON(m.savedIndex[i])]
    IN  [m EXCEPT !.messages = loaded,
                  !.originalMessages = copyMessages(loaded),
                  !.state = "READY", !.pc = "done",
                  !.ready = "resolved", !.init = Append(m.init, TRUE)]

initializeFailedSilently(m, error) ==
    [m EXCEPT !.state = "ERROR", !.pc = "done", !.ready = "rejected",
              !.initError = error]

\* the catch block of initialize()
initializeFailed(m, error) ==
    [m EXCEPT !.state = "ERROR", !.pc = "done", !.ready = "rejected",
              !.init = Append(m.init, FALSE), !.initError = error]

count(m) == Cardinality({ i \in 1..Len(m.messages) : ~m.messages[i].deleted })

totalCount(m) == Len(m.messages)

exportIndex(m) == [i \in 1..Len(m.messages) |-> toJSON(m.messages[i])]

NotReadyUnlessFailed(m) == m.state = "ERROR"

\* this.state !== MboxState.READY
NotReady(m) == m.state # "READY"

NotFoundReasonBoundsOnly(m, index) ==
    IF index < 0 \/ index >= Len(m.messages) THEN "out-of-bounds" ELSE "none"

\* the index checks of get and delete: the reason of MessageNotFoundError
NotFoundReason(m, index) ==
    IF index < 0 \/ index >= Len(m.messages) THEN "out-of-bounds"
    ELSE IF m.messages[index + 1].deleted THEN "deleted"
    ELSE "none"

markDeletedFrom(messages, index) ==
    [i \in 1..Len(messages) |->
        IF i >= index + 1 THEN markDeleted(messages[i]) ELSE messages[i]]

\* this.messages[index].markDeleted()
markDeletedAt(messages, index) ==
    [messages EXCEPT ![index + 1] = markDeleted(messages[index + 1])]

\* bytes msg.offset .. msg.offset + msg.size - 1 of the file
messageBytes(msg) == slice(content, msg.offset, msg.offset + msg.size)

RECURSIVE writtenWithDeleted(_, _)
writtenWithDeleted(messages, k) ==
    IF k > Len(messages) THEN <<>>
    ELSE messageBytes(messages[k]) \o writtenWithDeleted(messages, k + 1)

\* what write() streams to the destination: the non-deleted messages from
\* position k of the array on
RECURSIVE written(_, _)
written(messages, k) ==
    IF k > Len(messages) THEN <<>>
    ELSE IF messages[k].deleted THEN written(messages, k + 1)
    ELSE messageBytes(messages[k]) \o written(messages, k + 1)

\* no write() is in progress (atCall is a history field: the index as it
\* was when write() was called; no step reads it)
NoWriter ==
    [phase |-> "idle", array |-> <<>>, live |-> FALSE, pos |-> 0,
     out |-> <<>>, atCall |-> <<>>]

\* the failure of a read stream on the mbox file
ReadError == "EIO"

\* the failure of the write stream on the destination
WriteError == "EACCES"

\* the for..of loop of write() from position k of the array on: the
\* position of the next message that is not deleted, or one past the end
RECURSIVE nextToWrite(_, _)
nextToWrite(array, k) ==
    IF k > Len(array) THEN k
    ELSE IF array[k].deleted THEN nextToWrite(array, k + 1)
    ELSE k

\* a call that threw: the catch block emits the event with success = false
Failed(id, op, args, error, reason) ==
    [id |-> id, op |-> op, args |-> args, error |-> error, reason |-> reason,
     events |-> <<[name |-> op, success |-> FALSE, args |-> args]>>,
     result |-> <<>>]

\* a call that returned: the event with success = true was emitted
Succeeded(id, op, args, eventArgs, result) ==
    [id |-> id, op |-> op, args |-> args, error |-> "none",
     reason |-> "none",
     events |-> <<[name |-> op, success |-> TRUE, args |-> eventArgs]>>,
     result |-> result]

\* files of no message ('' and 'Fro'), of one ('Not an mbox...'), of two
\* ('From \nFrom ') and of three ('From \nFrom >From \nFrom \n')
InputsMbox ==
    { <<>>, <<70, 114, 111>>, ExampleNotAnMbox,
      DELIMITER_START \o <<10>> \o DELIMITER_START,
      (DELIMITER_START \o <<10>>)
        \o (DELIMITER_START \o <<62>> \o DELIMITER_START \o <<10>>)
        \o (DELIMITER_START \o <<10>>) }

(* ---------------------------------------------------------------------- *)
(* Operations                                                              *)
(* ---------------------------------------------------------------------- *)

\* the next n bytes of the stream, not yet delivered to instance s
NextChunk(s, n) == SubSeq(content, fed[s] + 1, fed[s] + n)

\* the reader writes the next n bytes of the stream to instance s.
\* lastCut records where the last non-empty chunk started.
Write(s, n) ==
    /\ fed[s] + n <= Len(content)
    /\ parser' = [parser EXCEPT ![s] = WriteChunk(parser[s], NextChunk(s, n))]
    /\ fed' = [fed EXCEPT ![s] = fed[s] + n]
    /\ lastCut' = [lastCut EXCEPT ![s] = IF n = 0 THEN lastCut[s] ELSE fed[s]]
    /\ UNCHANGED <<content, reuse, mbox, call, writer>>

\* end of input: end() runs _flush on a live stream
Finish(s) ==
    /\ ~parser[s].ended
    /\ ~parser[s].destroyed
    /\ fed[s] = Len(content)
    /\ parser' = [parser EXCEPT ![s] = Flush(parser[s])]
    /\ UNCHANGED <<content, fed, lastCut, reuse, mbox, call, writer>>

\* the caller calls reset() once, in any state, and then delivers the
\* stream from its start; mark is the number of boundaries pushed before
Reset(s) ==
    /\ ~reuse[s].reset
    /\ parser' = [parser EXCEPT ![s] = reset(parser[s])]
    /\ reuse' = [reuse EXCEPT ![s] = [reset |-> TRUE,
                                      mark  |-> Len(parser[s].pushed)]]
    /\ fed' = [fed EXCEPT ![s] = 0]
    /\ lastCut' = [lastCut EXCEPT ![s] = 0]
    /\ UNCHANGED <<content, mbox, call, writer>>

\* the whole stream has been delivered and the stream has ended or failed
Done(s) ==
    /\ fed[s] = Len(content)
    /\ parser[s].ended \/ parser[s].destroyed

InitWith(inputs) ==
    /\ content \in inputs
    /\ \E strict \in BOOLEAN : parser = [s \in Instances |-> NewParser(strict)]
    /\ fed = [s \in Instances |-> 0]
    /\ lastCut = [s \in Instances |-> 0]
    /\ reuse = [s \in Instances |-> [reset |-> FALSE, mark |-> 0]]
    /\ mbox = [id \in MboxIds |->
                 IF id = "A" THEN NewMbox(FALSE, <<>>) ELSE NotCreated]
    /\ call = NoCall
    /\ writer = NoWriter

Init == InitWith(Inputs)

\* the reader stops writing once it has signalled the end of input
Next ==
    \/ \E n \in 0..Len(content) : ~parser[1].ended /\ Write(1, n)
    \/ Finish(1)

Spec == Init /\ [][Next]_vars

\* two independent instances read the same stream, one after the other:
\* instance 1 in any partition into chunks, instance 2 in a single chunk
InitPair == InitWith(InputsPair)

NextPair ==
    \/ \E n \in 0..Len(content) : ~parser[1].ended /\ Write(1, n)
    \/ Finish(1)
    \/ Done(1) /\ fed[2] = 0 /\ ~parser[2].ended /\ Write(2, Len(content))
    \/ Done(1) /\ Finish(2)

SpecPair == InitPair /\ [][NextPair]_vars

\* instance 1 reads the stream, is reset at some point and reads the stream
\* again from its start; the fresh instance 2 reads the stream in one chunk
InitReset == InitWith(InputsReset)

NextReset ==
    \/ \E n \in 0..Len(content) : Write(1, n)
    \/ Finish(1)
    \/ Reset(1)
    \/ fed[2] = 0 /\ Write(2, Len(content))
    \/ Finish(2)

SpecReset == InitReset /\ [][NextReset]_vars

(* ---------------------------------------------------------------------- *)
(* Operations of Mbox                                                      *)
(* ---------------------------------------------------------------------- *)

scannerVars == <<content, parser, fed, lastCut, reuse>>

\* initialize() after fs.promises.access succeeded: the saved index is
\* loaded, or scanFile() opens the file and pipes it into a new parser
Access(id) ==
    /\ mbox[id].pc = "access"
    /\ mbox' = [mbox EXCEPT ![id] =
                  IF mbox[id].hasSavedIndex
                  THEN IF \E i \in 1..Len(mbox[id].savedIndex) :
                            InvalidMessage(mbox[id].savedIndex[i].index,
                                           mbox[id].savedIndex[i].offset,
                                           mbox[id].savedIndex[i].size)
                       THEN initializeFailed(mbox[id], "Error")
                       ELSE loadSavedIndex(mbox[id])
                  ELSE [mbox[id] EXCEPT !.pc = "scan"]]
    /\ UNCHANGED <<scannerVars, call, writer>>

\* fs.promises.access rejects: the file cannot be read
AccessFails(id) ==
    /\ mbox[id].pc = "access"
    /\ mbox' = [mbox EXCEPT ![id] = initializeFailed(mbox[id], AccessError)]
    /\ UNCHANGED <<scannerVars, call, writer>>

\* the read stream of A delivers the next n bytes to the parser; the 'data'
\* handler runs for each boundary pushed, the 'error' handler rejects
ScanChunk(n) ==
    /\ mbox["A"].pc = "scan"
    /\ ~parser[1].destroyed
    /\ fed[1] + n <= Len(content)
    /\ LET q == WriteChunk(parser[1], NextChunk(1, n))
           found == SubSeq(q.pushed, Len(parser[1].pushed) + 1, Len(q.pushed))
           indexed == [mbox["A"] EXCEPT
                         !.messages = onBoundaries(mbox["A"].messages, found)]
       IN  /\ parser' = [parser EXCEPT ![1] = q]
           /\ mbox' = [mbox EXCEPT !["A"] =
                         IF q.destroyed
                         THEN initializeFailed(indexed, q.lastWrite)
                         ELSE indexed]
    /\ fed' = [fed EXCEPT ![1] = fed[1] + n]
    /\ UNCHANGED <<content, lastCut, reuse, call, writer>>

\* the read stream of A ends: the parser is flushed, the 'end' handler
\* closes the last message with the file size and backs the index up, and
\* initialize() sets READY
ScanEnd ==
    /\ mbox["A"].pc = "scan"
    /\ ~parser[1].destroyed
    /\ fed[1] = Len(content)
    /\ parser' = [parser EXCEPT ![1] = Flush(parser[1])]
    /\ LET closed == onEnd(mbox["A"].messages, Len(content))
       IN  mbox' = [mbox EXCEPT !["A"] =
                      [mbox["A"] EXCEPT
                         !.messages = closed,
                         !.originalMessages = copyMessages(closed),
                         !.state = "READY", !.pc = "done",
                         !.ready = "resolved",
                         !.init = Append(mbox["A"].init, TRUE)]]
    /\ UNCHANGED <<content, fed, lastCut, reuse, call, writer>>

\* the read stream of A ends and the parser is flushed, but the
\* fs.promises.stat awaited by the 'end' handler rejects: the handler is an
\* async function whose promise nobody awaits, so resolve() is not called
\* and neither reject(): scanFile() stays pending
StatFails ==
    /\ mbox["A"].pc = "scan"
    /\ ~parser[1].destroyed
    /\ fed[1] = Len(content)
    /\ Len(mbox["A"].messages) > 0
    /\ parser' = [parser EXCEPT ![1] = Flush(parser[1])]
    /\ mbox' = [mbox EXCEPT !["A"].pc = "statRejected"]
    /\ UNCHANGED <<content, fed, lastCut, reuse, call, writer>>

\* the indexes a caller tries: one below, the valid ones, one above
IndexArgs(id) == -1 .. Len(mbox[id].messages)

\* get(index) with the default options
MboxGet(id, index) ==
    /\ mbox[id].state # "INIT"
    /\ call' =
         IF NotReady(mbox[id])
         THEN Failed(id, "get", <<index>>, MboxNotReadyError, "none")
         ELSE IF NotFoundReason(mbox[id], index) # "none"
         THEN Failed(id, "get", <<index>>, MessageNotFoundError,
                     NotFoundReason(mbox[id], index))
         ELSE LET data == messageBytes(mbox[id].messages[index + 1])
              IN  Succeeded(id, "get", <<index>>, <<index, data>>, data)
    /\ UNCHANGED <<scannerVars, mbox, writer>>

\* delete(index); the message object it marks is also the one in the array
\* a write() in progress iterates, unless reset() has replaced the array
MboxDelete(id, index) ==
    /\ mbox[id].state # "INIT"
    /\ IF NotReady(mbox[id])
       THEN /\ call' = Failed(id, "delete", <<index>>, MboxNotReadyError,
                              "none")
            /\ UNCHANGED <<mbox, writer>>
       ELSE IF NotFoundReason(mbox[id], index) # "none"
       THEN /\ call' = Failed(id, "delete", <<index>>, MessageNotFoundError,
                              NotFoundReason(mbox[id], index))
            /\ UNCHANGED <<mbox, writer>>
       ELSE /\ mbox' = [mbox EXCEPT ![id].messages =
                          markDeletedAt(mbox[id].messages, index)]
            /\ writer' = IF id = "A" /\ writer.live
                         THEN [writer EXCEPT
                                 !.array = markDeletedAt(writer.array, index)]
                         ELSE writer
            /\ call' = Succeeded(id, "delete", <<index>>, <<index>>, <<>>)
    /\ UNCHANGED scannerVars

\* reset(); this.messages becomes a new array of new objects, and a
\* write() in progress keeps iterating the old one
MboxReset(id) ==
    /\ mbox[id].state # "INIT"
    /\ IF NotReady(mbox[id])
       THEN /\ call' = Failed(id, "reset", <<>>, MboxNotReadyError, "none")
            /\ UNCHANGED <<mbox, writer>>
       ELSE /\ mbox' = [mbox EXCEPT ![id].messages =
                          copyMessages(mbox[id].originalMessages)]
            /\ writer' = IF id = "A" THEN [writer EXCEPT !.live = FALSE]
                         ELSE writer
            /\ call' = Succeeded(id, "reset", <<>>, <<>>, <<>>)
    /\ UNCHANGED scannerVars

MboxWriteCompacting(id) ==
    /\ mbox[id].state # "INIT"
    /\ call' =
         IF NotReady(mbox[id])
         THEN Failed(id, "write", <<Destination>>, MboxNotReadyError, "none")
         ELSE Succeeded(id, "write", <<Destination>>, <<Destination>>,
                        written(mbox[id].messages, 1))
    /\ mbox' = IF NotReady(mbox[id]) THEN mbox
               ELSE [mbox EXCEPT ![id].messages =
                       SelectSeq(mbox[id].messages, LAMBDA m : ~m.deleted)]
    /\ UNCHANGED <<scannerVars, writer>>

\* write(destination), run to its end with no other call in between; the
\* result is the content of the destination file
MboxWrite(id) ==
    /\ mbox[id].state # "INIT"
    /\ call' =
         IF NotReady(mbox[id])
         THEN Failed(id, "write", <<Destination>>, MboxNotReadyError, "none")
         ELSE Succeeded(id, "write", <<Destination>>, <<Destination>>,
                        written(mbox[id].messages, 1))
    /\ UNCHANGED <<scannerVars, mbox, writer>>

\* the read stream of A fails: scanFile() rejects
ReadFails ==
    /\ mbox["A"].pc = "scan"
    /\ ~parser[1].destroyed
    /\ mbox' = [mbox EXCEPT !["A"] = initializeFailed(mbox["A"], ReadError)]
    /\ UNCHANGED <<scannerVars, call, writer>>

\* get(index) on a valid index whose read stream fails
MboxGetFails(id, index) ==
    /\ ~NotReady(mbox[id])
    /\ NotFoundReason(mbox[id], index) = "none"
    /\ call' = Failed(id, "get", <<index>>, ReadError, "none")
    /\ UNCHANGED <<scannerVars, mbox, writer>>

\* A.write(destination) up to its first await: the state check, the write
\* stream, and the loop up to the first message that is not deleted, whose
\* read stream is piped into the write stream
WriteStart ==
    /\ writer.phase = "idle"
    /\ IF NotReady(mbox["A"])
       THEN /\ call' = Failed("A", "write", <<Destination>>,
                              MboxNotReadyError, "none")
            /\ UNCHANGED writer
       ELSE LET k == nextToWrite(mbox["A"].messages, 1)
            IN  /\ writer' = [phase |-> IF k > Len(mbox["A"].messages)
                                        THEN "closing" ELSE "streaming",
                              array |-> mbox["A"].messages,
                              live  |-> TRUE,
                              pos   |-> k,
                              out   |-> <<>>,
                              atCall |-> mbox["A"].messages]
                /\ UNCHANGED call
    /\ UNCHANGED <<scannerVars, mbox>>

\* the read stream of the current message ends: its bytes are in the
\* destination, and the loop goes on to the next message that is not
\* deleted now, or to writeStream.end()
WriteNext ==
    /\ writer.phase = "streaming"
    /\ LET k == nextToWrite(writer.array, writer.pos + 1)
       IN  writer' = [writer EXCEPT
                        !.out   = writer.out
                                    \o messageBytes(writer.array[writer.pos]),
                        !.pos   = k,
                        !.phase = IF k > Len(writer.array)
                                  THEN "closing" ELSE "streaming"]
    /\ UNCHANGED <<scannerVars, mbox, call>>

\* the callback of writeStream.end(): write() emits 'write' and returns
WriteClose ==
    /\ writer.phase = "closing"
    /\ call' = Succeeded("A", "write", <<Destination>>, <<Destination>>,
                         writer.out)
    /\ writer' = NoWriter
    /\ UNCHANGED <<scannerVars, mbox>>

\* the read stream of the current message fails: its 'error' listener
\* rejects, the catch block emits 'write' with success = false
WriteSourceFails ==
    /\ writer.phase = "streaming"
    /\ call' = Failed("A", "write", <<Destination>>, ReadError, "none")
    /\ writer' = NoWriter
    /\ UNCHANGED <<scannerVars, mbox>>

\* the write stream fails (the destination cannot be opened or written).
\* After the loop its 'error' listener rejects.  During the loop write()
\* has put no 'error' listener on it: the event is unhandled, the pending
\* promise is neither resolved nor rejected, and no 'write' event follows
WriteDestinationFails ==
    /\ writer.phase \in { "streaming", "closing" }
    /\ IF writer.phase = "closing"
       THEN /\ call' = Failed("A", "write", <<Destination>>, WriteError,
                              "none")
            /\ writer' = NoWriter
       ELSE /\ writer' = [writer EXCEPT !.phase = "unhandled", !.live = FALSE]
            /\ UNCHANGED call
    /\ UNCHANGED <<scannerVars, mbox>>

\* A.exportIndex() on the READY instance A, and new Mbox(filename,
\* { savedIndex }) with what it returned
CreateFromExport ==
    /\ mbox["A"].state = "READY"
    /\ mbox["B"].state = "INIT"
    /\ mbox' = [mbox EXCEPT !["B"] = NewMbox(TRUE, exportIndex(mbox["A"]))]
    /\ call' = [NoCall EXCEPT !.op = "exportIndex"]
    /\ UNCHANGED <<scannerVars, writer>>

InitMbox == InitWith(InputsMbox)

NextMbox ==
    \/ \E id \in MboxIds : Access(id)
    \/ \E id \in MboxIds : AccessFails(id)
    \/ \E n \in 1..Len(content) : ScanChunk(n)
    \/ ScanEnd
    \/ ReadFails
    \/ \E id \in MboxIds : \E index \in IndexArgs(id) : MboxGet(id, index)
    \/ \E id \in MboxIds : \E index \in IndexArgs(id) : MboxDelete(id, index)
    \/ \E id \in MboxIds : MboxReset(id)
    \/ \E id \in MboxIds : MboxWrite(id)
    \/ CreateFromExport

SpecMbox == InitMbox /\ [][NextMbox]_vars

\* A alone: the file arrives in one chunk, and write() runs step by step
\* with get, delete and reset called between its steps
InitWrite == InitWith(InputsMbox)

NextWrite ==
    \/ Access("A")
    \/ ScanChunk(Len(content))
    \/ ScanEnd
    \/ \E index \in IndexArgs("A") : MboxGet("A", index)
    \/ \E index \in IndexArgs("A") : MboxGetFails("A", index)
    \/ \E index \in IndexArgs("A") : MboxDelete("A", index)
    \/ MboxReset("A")
    \/ WriteStart
    \/ WriteNext
    \/ WriteClose
    \/ WriteSourceFails
    \/ WriteDestinationFails

SpecWrite == InitWrite /\ [][NextWrite]_vars

\* initialisation alone, with every outcome of its file operations: each
\* pending file operation (access, read, stat) completes, well or not
InitInitialize == InitWith(InputsMbox)

InitializeStep ==
    \/ \E id \in MboxIds : Access(id)
    \/ \E id \in MboxIds : AccessFails(id)
    \/ \E n \in 1..Len(content) : ScanChunk(n)
    \/ ReadFails
    \/ ScanEnd
    \/ StatFails

NextInitialize ==
    \/ InitializeStep
    \/ CreateFromExport

SpecInitialize ==
    InitInitialize /\ [][NextInitialize]_vars /\ WF_vars(InitializeStep)

(* ---------------------------------------------------------------------- *)
(* Reference notions over the whole stream                                 *)
(* ---------------------------------------------------------------------- *)

\* bytes i .. i+5 (0-based) of the stream are '\nFrom '
DelimiterAt(i) ==
    /\ i + Len(DELIMITER) <= Len(content)
    /\ SubSeq(content, i + 1, i + Len(DELIMITER)) = DELIMITER

BeginsWithFrom(stream) ==
    /\ Len(stream) >= 5
    /\ SubSeq(stream, 1, 5) = <<70, 114, 111, 109, 32>>

Count(seq, x) == Cardinality({ k \in 1..Len(seq) : seq[k] = x })

TypeOK ==
    /\ content \in Seq(0..255)
    /\ \A s \in Instances :
         /\ parser[s].absoluteOffset \in Nat
         /\ parser[s].isFirstChunk \in BOOLEAN
         /\ fed[s] \in 0..Len(content)
         /\ lastCut[s] \in 0..fed[s]

\* the last non-empty chunk written to instance s started inside the
\* delimiter occurrence at position i
CutInside(s, i) == DelimiterAt(i) /\ i < lastCut[s] /\ lastCut[s] < i + 6

(* ---------------------------------------------------------------------- *)
(* Properties                                                              *)
(* ---------------------------------------------------------------------- *)

\* C1: chunking invariance.  Two fresh parsers with the same strict value
\* that were fed the same stream in two partitions into chunks have pushed
\* exactly the same sequence of boundary offsets: every partition gives
\* what the single chunk gives, hence any two give the same.
C1_ChunkingInvariance ==
    (Done(1) /\ Done(2)) => parser[1].pushed = parser[2].pushed

\* instance 1 was cut inside a delimiter, instance 2 got the stream whole
C1_Witness ==
    /\ Done(1) /\ Done(2)
    /\ \E i \in 0..Len(content) : CutInside(1, i)
    /\ lastCut[2] = 0
    /\ Len(parser[1].pushed) >= 2

\* C2: completeness.  In non-strict mode each occurrence of '\nFrom ' at
\* position i of the stream is reported as offset i + 1 exactly once, by
\* the time its six bytes have been delivered, and not before.
C2_Completeness ==
    ~parser[1].strict =>
        \A i \in 0..Len(content) :
            DelimiterAt(i) =>
                Count(parser[1].pushed, i + 1)
                    = IF fed[1] >= i + 6 THEN 1 ELSE 0

C2_Witness ==
    /\ ~parser[1].strict
    /\ Done(1)
    /\ \E i \in 0..Len(content) :
          CutInside(1, i) /\ Count(parser[1].pushed, i + 1) = 1

\* C3: soundness.  Every pushed offset o is 0 with the stream beginning
\* with 'From ', or o > 0 with a newline at o - 1 and 'From ' at o .. o+4.
C3_Soundness ==
    \A k \in 1..Len(parser[1].pushed) :
        LET o == parser[1].pushed[k]
        IN  \/ o = 0 /\ BeginsWithFrom(content)
            \/ o > 0 /\ DelimiterAt(o - 1)

\* '>From ' and a mid-line 'From ' were scanned in pieces; one boundary
C3_Witness ==
    /\ content = ExampleEscaped
    /\ Done(1)
    /\ lastCut[1] > 7
    /\ parser[1].pushed = <<0>>

\* C4: offset zero.  A stream beginning with 'From ' gets offset 0 exactly
\* once, first, as soon as its first five bytes are delivered; any other
\* stream never gets offset 0 in non-strict mode.
C4_OffsetZero ==
    /\ BeginsWithFrom(content) =>
          /\ Count(parser[1].pushed, 0) = IF fed[1] >= 5 THEN 1 ELSE 0
          /\ parser[1].pushed # <<>> => parser[1].pushed[1] = 0
    /\ (~BeginsWithFrom(content) /\ ~parser[1].strict) =>
          Count(parser[1].pushed, 0) = 0

\* the first chunks were shorter than five bytes
C4_Witness ==
    /\ BeginsWithFrom(content)
    /\ fed[1] = 5
    /\ lastCut[1] = 4
    /\ parser[1].pushed = <<0>>

\* C5: strict mode raises the validation error for every stream that was
\* fed and finished and does not begin with 'From '.  (The empty stream is
\* left to its own scenario and is not counted here.)
C5_StrictAlwaysFails ==
    (parser[1].strict /\ content # <<>> /\ ~BeginsWithFrom(content)
        /\ fed[1] = Len(content)
        /\ (parser[1].ended \/ parser[1].destroyed))
    => parser[1].errors # <<>>

\* C6: a strict-mode failure comes with no boundary at all, before, in or
\* after the failing write, and is raised at most once.
C6_FailureEmitsNothing ==
    parser[1].errors # <<>> =>
        /\ parser[1].pushed = <<>>
        /\ parser[1].errors = <<MboxValidationError>>

\* the rest of the stream, holding a delimiter, was written after the error
C6_Witness ==
    /\ content = ExampleNotAnMbox
    /\ parser[1].errors = <<MboxValidationError>>
    /\ fed[1] = Len(content)
    /\ lastCut[1] > 0
    /\ parser[1].pushed = <<>>

\* no '\nFrom ' anywhere in the stream
NoDelimiter == \A i \in 0..Len(content) : ~DelimiterAt(i)

\* C7: non-strict mode never raises an error; 'Not an mbox\nFrom someone\n'
\* gives [12], a stream with neither a delimiter nor a leading 'From '
\* gives the empty list.
C7_NonStrictNeverFails ==
    ~parser[1].strict =>
        /\ parser[1].errors = <<>>
        /\ ~parser[1].destroyed
        /\ (Done(1) /\ content = ExampleNotAnMbox) => parser[1].pushed = <<12>>
        /\ (Done(1) /\ NoDelimiter /\ ~BeginsWithFrom(content))
              => parser[1].pushed = <<>>

C7_Witness ==
    /\ ~parser[1].strict
    /\ content = ExampleNotAnMbox
    /\ Done(1)
    /\ lastCut[1] > 0
    /\ parser[1].pushed = <<12>>

\* C8: the pushed offsets are non-negative and strictly increasing.
C8_Ordering ==
    \A k \in 1..Len(parser[1].pushed) :
        /\ parser[1].pushed[k] >= 0
        /\ k > 1 => parser[1].pushed[k - 1] < parser[1].pushed[k]

\* three boundaries, the last delimiter straddling two chunks
C8_Witness ==
    /\ Len(parser[1].pushed) >= 3
    /\ \E i \in 0..Len(content) :
          CutInside(1, i) /\ parser[1].pushed[Len(parser[1].pushed)] = i + 1

\* m starts with 'From ' and holds no '\nFrom '
IsMessage(m) == BeginsWithFrom(m) /\ indexOf(m, DELIMITER, 0) = -1

EndsWithNewline(m) == Len(m) > 0 /\ m[Len(m)] = 10

\* the stream is m1 + m2 + m3 with len(m1) = a and len(m1) + len(m2) = b
ThreeMessages(a, b) ==
    /\ 0 < a /\ a < b /\ b < Len(content)
    /\ IsMessage(SubSeq(content, 1, a))
    /\ EndsWithNewline(SubSeq(content, 1, a))
    /\ IsMessage(SubSeq(content, a + 1, b))
    /\ EndsWithNewline(SubSeq(content, a + 1, b))
    /\ IsMessage(SubSeq(content, b + 1, Len(content)))

\* C9: offset math.  Scanning m1 + m2 + m3 gives [0, len(m1),
\* len(m1) + len(m2)].
C9_OffsetMath ==
    Done(1) =>
        \A a \in 1..Len(content) : \A b \in 1..Len(content) :
            ThreeMessages(a, b) => parser[1].pushed = <<0, a, b>>

C9_Witness ==
    /\ Done(1)
    /\ lastCut[1] > 0
    /\ \E a \in 1..Len(content) : \E b \in 1..Len(content) :
          ThreeMessages(a, b) /\ parser[1].pushed = <<0, a, b>>

\* C10 as stated: the example stream gives the boundary list [0, 41].
C10_ExampleAsStated ==
    (content = ExampleTwoMessages /\ Done(1)) => parser[1].pushed = <<0, 41>>

\* C10: the example stream 'From a@x Mon Jan 1\nSubj: 1\n\nBody 1\n' +
\* 'From b@x Mon Jan 2\nSubj: 2\n' gives the boundary list [0, 35]; 35 is
\* the length of the first message.
C10_Example ==
    (content = ExampleTwoMessages /\ Done(1)) => parser[1].pushed = <<0, 35>>

C10_Witness ==
    /\ content = ExampleTwoMessages
    /\ Done(1)
    /\ parser[1].pushed = <<0, 35>>

\* C11: empty input.  A stream of no bytes, written as no chunk or as
\* zero-length chunks and then finished, gives no boundary and no error,
\* with strict false or true.
C11_EmptyInput ==
    content = <<>> =>
        /\ parser[1].pushed = <<>>
        /\ parser[1].errors = <<>>
        /\ ~parser[1].destroyed
        /\ parser[1].lastWrite \in {"none", "ok"}

\* a zero-length chunk was written in strict mode, then end of input
C11_Witness ==
    /\ content = <<>>
    /\ parser[1].strict
    /\ parser[1].lastWrite = "ok"
    /\ parser[1].ended
    /\ parser[1].pushed = <<>>

\* C12: the step that signals end of input pushes no boundary and raises
\* no error, whatever the tail holds; the list after it is the list of the
\* writes.
C12_FinishEmitsNothing ==
    [][(~parser[1].ended /\ parser'[1].ended) =>
          /\ parser'[1].pushed = parser[1].pushed
          /\ parser'[1].errors = parser[1].errors
          /\ parser'[1].destroyed = parser[1].destroyed]_vars

\* the stream ended in '\nFrom' without the space
C12_Witness ==
    /\ parser[1].ended
    /\ parser[1].tail = <<10, 70, 114, 111, 109>>
    /\ parser[1].pushed = <<>>

\* C13: a write after end of input fails with the write-after-end error,
\* pushes no boundary and leaves absoluteOffset, tail and isFirstChunk (and
\* everything else of the instance) as they were.
C13_WriteAfterEnd ==
    [][(/\ parser[1].ended
        /\ reuse'[1] = reuse[1]
        /\ <<parser'[1], fed'[1]>> # <<parser[1], fed[1]>>)
       => parser'[1] =
            [parser[1] EXCEPT !.lastWrite = ERR_STREAM_WRITE_AFTER_END]]_vars

\* a whole non-empty stream was written after the end of input
C13_Witness ==
    /\ parser[1].ended
    /\ reuse[1].reset
    /\ Len(content) > 0
    /\ fed[1] = Len(content)
    /\ parser[1].lastWrite = ERR_STREAM_WRITE_AFTER_END
    /\ parser[1].absoluteOffset = 0
    /\ parser[1].tail = <<>>
    /\ parser[1].isFirstChunk

\* the boundaries instance s pushed since its reset()
PushedSinceReset(s) ==
    SubSeq(parser[s].pushed, reuse[s].mark + 1, Len(parser[s].pushed))

\* C14: reset() in any reachable state sets absoluteOffset to 0, the tail
\* to empty and isFirstChunk to true and keeps strict, and the stream fed
\* afterwards gives exactly the boundaries a fresh parser gives for it.
C14_ResetAsStated ==
    /\ (reuse[1].reset /\ fed[1] = 0) =>
          /\ parser[1].absoluteOffset = 0
          /\ parser[1].tail = <<>>
          /\ parser[1].isFirstChunk
          /\ parser[1].strict = parser[2].strict
    /\ (reuse[1].reset /\ fed[1] = Len(content) /\ fed[2] = Len(content)) =>
          PushedSinceReset(1) = parser[2].pushed

\* the sizes of the messages from position k of the array on, added up
RECURSIVE SumSizes(_, _)
SumSizes(messages, k) ==
    IF k > Len(messages) THEN 0
    ELSE messages[k].size + SumSizes(messages, k + 1)

\* C15: index construction.  After a successful scan message i has index
\* i, the offset of the i-th pushed boundary, and a size that runs to the
\* next boundary, the last one to the end of the file; every size is
\* positive and the sizes add up to fileLength - offset(0).
C15_IndexConstruction ==
    mbox["A"].state = "READY" =>
        LET m == mbox["A"].messages
            b == parser[1].pushed
            n == Len(m)
        IN  /\ n = Len(b)
            /\ \A i \in 1..n :
                 /\ m[i].index = i - 1
                 /\ m[i].offset = b[i]
                 /\ m[i].size =
                      (IF i < n THEN b[i + 1] ELSE Len(content)) - b[i]
                 /\ m[i].size > 0
            /\ n > 0 => SumSizes(m, 1) = Len(content) - b[1]
            /\ \A i \in 1..n :
                 /\ mbox["A"].originalMessages[i].index = m[i].index
                 /\ mbox["A"].originalMessages[i].offset = m[i].offset
                 /\ mbox["A"].originalMessages[i].size = m[i].size

\* a file of three messages of 6, 12 and 6 bytes was scanned
C15_Witness ==
    /\ mbox["A"].state = "READY"
    /\ Len(mbox["A"].messages) = 3
    /\ mbox["A"].messages[2].offset = 6
    /\ mbox["A"].messages[2].size = 12
    /\ mbox["A"].messages[3].offset = 18
    /\ mbox["A"].messages[3].size = 6

\* C16: not-ready guard.  get, delete, reset and write called in state
\* INDEXING or ERROR fail with MboxNotReadyError and change neither the
\* index, nor the deleted flags, nor the state.
C16_NotReadyGuard ==
    [][(/\ call' # call
        /\ call'.op \in { "get", "delete", "reset", "write" }
        /\ mbox[call'.id].state \in { "INDEXING", "ERROR" })
       => /\ call'.error = MboxNotReadyError
          /\ mbox' = mbox]_vars

\* delete(0) was refused while the scan had already indexed message 0
C16_Witness ==
    /\ call.op = "delete"
    /\ call.args = <<0>>
    /\ call.error = MboxNotReadyError
    /\ mbox["A"].state = "INDEXING"
    /\ Len(mbox["A"].messages) >= 1
    /\ ~mbox["A"].messages[1].deleted

\* the number of messages marked deleted
DeletedCount(m) ==
    Cardinality({ i \in 1..Len(m.messages) : m.messages[i].deleted })

C18_InvalidIndex ==
    [][(/\ call' # call
        /\ call'.op \in { "get", "delete" }
        /\ mbox[call'.id].state = "READY"
        /\ LET m == mbox[call'.id]
               i == call'.args[1]
           IN  \/ i < 0
               \/ i >= totalCount(m)
               \/ m.messages[i + 1].deleted)
       => /\ call'.error = MessageNotFoundError
          /\ call'.events = << [name    |-> call'.op,
                                success |-> FALSE,
                                args    |-> call'.args] >>
          /\ mbox' = mbox]_vars

\* a deleted message was deleted once more
C18_Witness ==
    /\ call.op = "delete"
    /\ call.error = MessageNotFoundError
    /\ call.reason = "deleted"
    /\ call.events = << [name |-> "delete", success |-> FALSE,
                         args |-> call.args] >>
    /\ mbox[call.id].messages[call.args[1] + 1].deleted

\* C19: after a successful reset() no message of the instance is marked
\* deleted: count() = totalCount() and get(i) succeeds for every valid i,
\* for an index built by the scan and for one loaded from savedIndex.
C19_ResetRestoresAll ==
    (call.op = "reset" /\ call.error = "none") =>
        LET m == mbox[call.id]
        IN  /\ count(m) = totalCount(m)
            /\ \A i \in 0..(totalCount(m) - 1) : NotFoundReason(m, i) = "none"

\* C20: export/import round trip.  exportIndex() leaves A as it is; B,
\* created with what it returned, never scans, and once READY has the
\* messages of A, index, offset, size and deleted flag, hence its count()
\* and totalCount().
C20_ExportImport ==
    [][/\ (call' # call /\ call'.op = "exportIndex") =>
            mbox'["A"] = mbox["A"]
       /\ mbox'["B"].pc # "scan"
       /\ mbox'["B"] # mbox["B"] => (parser' = parser /\ fed' = fed)
       /\ (call'.op = "exportIndex" /\ mbox'["B"].state = "READY") =>
            /\ Len(mbox'["B"].messages) = Len(mbox'["A"].messages)
            /\ \A i \in 1..Len(mbox'["A"].messages) :
                 /\ mbox'["B"].messages[i].index = mbox'["A"].messages[i].index
                 /\ mbox'["B"].messages[i].offset = mbox'["A"].messages[i].offset
                 /\ mbox'["B"].messages[i].size = mbox'["A"].messages[i].size
                 /\ mbox'["B"].messages[i].deleted = mbox'["A"].messages[i].deleted
            /\ count(mbox'["B"]) = count(mbox'["A"])
            /\ totalCount(mbox'["B"]) = totalCount(mbox'["A"])
      ]_vars

\* B is READY with the index of A, in which the second of three messages
\* was deleted before the export
C20_Witness ==
    /\ call.op = "exportIndex"
    /\ mbox["B"].state = "READY"
    /\ totalCount(mbox["B"]) = 3
    /\ mbox["B"].messages[2].deleted
    /\ count(mbox["B"]) = 2
    /\ mbox["A"].messages[2].deleted

\* the last n bytes of a buffer
LastBytes(buffer, n) == SubSeq(buffer, Len(buffer) - n + 1, Len(buffer))

\* the bytes the parser has taken in: the first absoluteOffset of the stream
Consumed(s) == SubSeq(content, 1, parser[s].absoluteOffset)

\* C25: carry bound.  The tail never holds more than 5 bytes, and once the
\* first-chunk decision is made it is the last min(5, n) bytes of the n
\* bytes taken in so far.
C25_CarryBound ==
    /\ Len(parser[1].tail) <= Len(DELIMITER) - 1
    /\ ~parser[1].isFirstChunk =>
          parser[1].tail =
              LastBytes(Consumed(1),
                        Min(Len(DELIMITER) - 1, parser[1].absoluteOffset))

\* more than ten bytes went in, in several chunks, and the tail is full
C25_Witness ==
    /\ ~parser[1].isFirstChunk
    /\ ~parser[1].destroyed
    /\ parser[1].absoluteOffset > 10
    /\ lastCut[1] > 5
    /\ Len(parser[1].tail) = 5
    /\ parser[1].tail # DELIMITER_START

\* C26: offset accounting.  A write that returns without error advances
\* absoluteOffset by the length of the chunk, so that it is the number of
\* bytes written so far; a boundary o > 0 it pushes was found at position
\* p = o - 1 - absoluteOffset + k of tail + chunk, k the length of the
\* tail, and no offset is negative.
C26_OffsetAccounting ==
    [][(parser'[1] # parser[1] /\ parser'[1].lastWrite = "ok") =>
          LET k     == Len(parser[1].tail)
              chunk == SubSeq(content, fed[1] + 1, fed'[1])
              buf   == parser[1].tail \o chunk
              found == SubSeq(parser'[1].pushed, Len(parser[1].pushed) + 1,
                              Len(parser'[1].pushed))
          IN  /\ parser'[1].absoluteOffset
                   = parser[1].absoluteOffset + Len(chunk)
              /\ parser'[1].absoluteOffset = fed'[1]
              /\ \A j \in 1..Len(found) :
                   /\ found[j] >= 0
                   /\ found[j] > 0 =>
                        LET p == found[j] - 1 - parser[1].absoluteOffset + k
                        IN  /\ p >= 0
                            /\ SubSeq(buf, p + 1, p + Len(DELIMITER))
                                 = DELIMITER]_vars

\* a boundary was found across the cut, with a non-empty tail
C26_Witness ==
    /\ parser[1].lastWrite = "ok"
    /\ parser[1].absoluteOffset = fed[1]
    /\ lastCut[1] > 0
    /\ Len(parser[1].pushed) >= 2
    /\ \E i \in 0..Len(content) :
          /\ CutInside(1, i)
          /\ parser[1].pushed[Len(parser[1].pushed)] = i + 1
          /\ fed[1] > i + 6

\* the loop of _transform resuming after the whole match instead of one
\* byte after its start
RECURSIVE ScanLoopSkipping(_, _, _, _)
ScanLoopSkipping(searchBuffer, searchIndex, tailLength, absoluteOffset) ==
    LET matchIndex == indexOf(searchBuffer, DELIMITER, searchIndex)
    IN  IF matchIndex = -1 THEN <<>>
        ELSE <<FilePosition(absoluteOffset, matchIndex, tailLength)>>
             \o ScanLoopSkipping(searchBuffer, matchIndex + Len(DELIMITER),
                                 tailLength, absoluteOffset)

\* C27: minimum spacing.  Two consecutive pushed offsets differ by at
\* least 6, offset 0 and the first later one included, and the loop finds
\* in the stream what it would find resuming 6 bytes after each match.
C27_MinimumSpacing ==
    /\ \A j \in 1..(Len(parser[1].pushed) - 1) :
          parser[1].pushed[j + 1] - parser[1].pushed[j] >= Len(DELIMITER)
    /\ ScanLoop(content, 0, 0, 0) = ScanLoopSkipping(content, 0, 0, 0)

\* offsets 0 and 6 of 'From \nFrom ...', the second found across a cut
C27_Witness ==
    /\ Len(parser[1].pushed) >= 2
    /\ parser[1].pushed[1] = 0
    /\ parser[1].pushed[2] = 6
    /\ CutInside(1, 5)
    /\ ScanLoop(content, 0, 0, 0) # <<>>

\* a non-empty proper prefix of 'From ', or nothing
ProperPrefixOfFrom(buffer) ==
    /\ Len(buffer) < Len(DELIMITER_START)
    /\ buffer = SubSeq(DELIMITER_START, 1, Len(buffer))

\* C28: deferred decision.  While isFirstChunk is true fewer than 5 bytes
\* have been taken in, the tail is all of them and a proper prefix of
\* 'From ', absoluteOffset is its length, and no boundary and no error has
\* come since the start or the reset; isFirstChunk turns true again only
\* by reset().
C28_DeferredDecision ==
    [][/\ parser'[1].isFirstChunk =>
            /\ parser'[1].absoluteOffset < Len(DELIMITER_START)
            /\ parser'[1].tail =
                 SubSeq(content, 1, parser'[1].absoluteOffset)
            /\ ProperPrefixOfFrom(parser'[1].tail)
            /\ Len(parser'[1].tail) = parser'[1].absoluteOffset
            /\ SubSeq(parser'[1].pushed, reuse'[1].mark + 1,
                      Len(parser'[1].pushed)) = <<>>
            /\ parser'[1].errors # <<>> =>
                 (reuse'[1].reset /\ parser'[1].errors = parser[1].errors)
       /\ (~parser[1].isFirstChunk /\ parser'[1].isFirstChunk) =>
            (~reuse[1].reset /\ reuse'[1].reset)
      ]_vars

\* 'From' has gone in after a reset, in more than one chunk, undecided
C28_Witness ==
    /\ parser[1].isFirstChunk
    /\ reuse[1].reset
    /\ reuse[1].mark > 0
    /\ parser[1].tail = <<70, 114, 111, 109>>
    /\ parser[1].absoluteOffset = 4
    /\ lastCut[1] > 0
    /\ parser[1].lastWrite = "ok"

\* the first min(5, n) bytes of an n-byte buffer agree with 'From '
AgreesWithFrom(buffer) ==
    LET n == Min(Len(buffer), Len(DELIMITER_START))
    IN  SubSeq(buffer, 1, n) = SubSeq(DELIMITER_START, 1, n)

\* C29: strict-mode determinism.  Whether the validation error is raised
\* does not depend on the partition into chunks, and it is raised by the
\* first write after which the bytes written no longer agree with 'From ',
\* the write of the 5th byte at the latest.
C29_StrictDeterminism ==
    [][/\ (Done(1)' /\ Done(2)') => parser'[1].errors = parser'[2].errors
       /\ parser'[1].errors # parser[1].errors =>
            /\ parser[1].strict
            /\ parser[1].errors = <<>>
            /\ AgreesWithFrom(SubSeq(content, 1, fed[1]))
            /\ ~AgreesWithFrom(SubSeq(content, 1, fed'[1]))
       /\ (/\ parser[1].strict
           /\ ~parser[1].ended
           /\ AgreesWithFrom(SubSeq(content, 1, fed[1]))
           /\ ~AgreesWithFrom(SubSeq(content, 1, fed'[1])))
          => parser'[1].errors = <<MboxValidationError>>
      ]_vars

\* 'Fro' went in without error and the next chunk raised it, while the
\* single chunk of instance 2 raised it at once
C29_Witness ==
    /\ Done(1) /\ Done(2)
    /\ parser[1].strict
    /\ parser[1].errors = <<MboxValidationError>>
    /\ parser[2].errors = <<MboxValidationError>>
    /\ parser[1].absoluteOffset = 3
    /\ parser[2].absoluteOffset = 0

\* the messages that are not deleted, in index order
Kept(messages) == SelectSeq(messages, LAMBDA m : ~m.deleted)

\* the index a fresh Mbox builds by scanning a file of these bytes
ScannedIndex(bytes, strict) ==
    onEnd(onBoundaries(<<>>, Transform(NewParser(strict), bytes).pushed),
          Len(bytes))

\* C21: write round trip.  The destination of a write() by the scanned
\* instance holds the non-deleted messages in index order and nothing
\* else: a fresh Mbox scanning it, strict or not, finds count() messages,
\* contiguous from offset 0, the j-th equal byte for byte to the j-th
\* non-deleted message of the source.
C21_WriteRoundTrip ==
    (call.op = "write" /\ call.error = "none" /\ call.id = "A") =>
        LET src  == Kept(mbox["A"].messages)
            dest == call.result
        IN  /\ Len(dest) = SumSizes(src, 1)
            /\ \A strict \in BOOLEAN :
                 LET dst == ScannedIndex(dest, strict)
                 IN  /\ ~Transform(NewParser(strict), dest).destroyed
                     /\ Len(dst) = count(mbox["A"])
                     /\ Len(dst) > 0 => dst[1].offset = 0
                     /\ \A j \in 1..Len(dst) :
                          slice(dest, dst[j].offset,
                                dst[j].offset + dst[j].size)
                            = messageBytes(src[j])

\* the first and the third of three messages were written, 12 bytes
C21_Witness ==
    /\ call.op = "write" /\ call.error = "none" /\ call.id = "A"
    /\ totalCount(mbox["A"]) = 3
    /\ mbox["A"].messages[2].deleted
    /\ count(mbox["A"]) = 2
    /\ Len(call.result) = 12

\* C22: strict mode through Mbox.  On a file that does not start with
\* 'From ' the initialisation with strict = true ends in ERROR, ready()
\* rejected with the validation error and 'init' emitted with false; with
\* strict = false it ends in READY.
C22_StrictThroughMbox ==
    (/\ mbox["A"].pc = "done"
     /\ mbox["A"].initError \notin { AccessError, ReadError }
     /\ content # <<>>
     /\ ~BeginsWithFrom(content))
    => IF parser[1].strict
       THEN /\ mbox["A"].state = "ERROR"
            /\ mbox["A"].ready = "rejected"
            /\ mbox["A"].init = <<FALSE>>
            /\ mbox["A"].initError = MboxValidationError
       ELSE mbox["A"].state = "READY"

\* C23: event/promise agreement.  A call of get, delete, reset or write
\* that has ended emitted exactly one event, of its name, with success =
\* true exactly if it did not throw, carrying its index or destination;
\* and a write() that has not ended yet can still go on to its event.
C23_EventPromiseAgreement ==
    /\ call.op \in { "get", "delete", "reset", "write" } =>
          /\ Len(call.events) = 1
          /\ call.events[1].name = call.op
          /\ call.events[1].success = (call.error = "none")
          /\ call.op # "reset" => call.events[1].args[1] = call.args[1]
    /\ writer.phase # "idle" => ENABLED (WriteNext \/ WriteClose)

\* C24: read-only operations.  get, write and exportIndex change neither
\* the messages nor the state of the instance; after a write() the
\* instance is READY as before.
C24_ReadOnly ==
    [][(call' # call /\ call'.op \in { "get", "write", "exportIndex" }) =>
          /\ mbox'[call'.id] = mbox[call'.id]
          /\ (call'.op = "write" /\ call'.error = "none") =>
               mbox'[call'.id].state = "READY"]_vars

\* a write() of one of two messages, the other one deleted, has returned
C24_Witness ==
    /\ call.op = "write" /\ call.error = "none"
    /\ mbox[call.id].state = "READY"
    /\ totalCount(mbox[call.id]) = 2
    /\ DeletedCount(mbox[call.id]) = 1
    /\ call.result # <<>>

\* C30: lifecycle.  The state goes from INDEXING, entered by the
\* constructor, to READY or to ERROR and then stays; 'init' is emitted
\* once, with true exactly when READY is entered, and ready() resolves
\* exactly then and rejects exactly when ERROR is entered.
C30_Lifecycle ==
    [][\A id \in MboxIds :
         /\ mbox'[id].state # mbox[id].state =>
              \/ mbox[id].state = "INIT" /\ mbox'[id].state = "INDEXING"
              \/ /\ mbox[id].state = "INDEXING"
                 /\ mbox'[id].state \in { "READY", "ERROR" }
         /\ mbox'[id].state \in { "INIT", "INDEXING" } =>
              mbox'[id].init = <<>> /\ mbox'[id].ready = "pending"
         /\ mbox'[id].state = "READY" =>
              mbox'[id].init = <<TRUE>> /\ mbox'[id].ready = "resolved"
         /\ mbox'[id].state = "ERROR" =>
              mbox'[id].init = <<FALSE>> /\ mbox'[id].ready = "rejected"
      ]_vars

\* A failed on strict validation after calls were made on it
C30_Witness ==
    /\ mbox["A"].state = "ERROR"
    /\ mbox["A"].initError = MboxValidationError
    /\ mbox["A"].init = <<FALSE>>
    /\ mbox["A"].ready = "rejected"
    /\ call.op = "reset"
    /\ call.error = MboxNotReadyError

\* C31: initialisation terminates.  Every constructed Mbox leaves
\* INDEXING for READY or ERROR and its ready() settles, whatever the
\* outcome of access, of the read, of the validation and of the final
\* size lookup.
C31_InitializationTerminates ==
    /\ (mbox["A"].state = "INDEXING")
          ~> (mbox["A"].state \in { "READY", "ERROR" }
              /\ mbox["A"].ready # "pending")
    /\ (mbox["B"].state = "INDEXING")
          ~> (mbox["B"].state \in { "READY", "ERROR" }
              /\ mbox["B"].ready # "pending")

\* C32: write() snapshot under interleaving.  A write() that completes
\* has written exactly the messages that were not deleted when it was
\* called, whatever delete() and reset() calls ran while it was in
\* progress.
C32_WriteSnapshot ==
    [][(writer.phase = "closing" /\ call' # call
        /\ call'.op = "write" /\ call'.error = "none")
       => call'.result = written(writer.atCall, 1)]_vars

====
